---------------------------- MODULE Spec2Model ----------------------------
(***************************************************************************)
(* Job-title categorisation service (src/task3.py).                        *)
(*                                                                         *)
(* Strings are sequences of one-character strings, so that lower-casing,   *)
(* substring replacement, the character filter, whole-word search and the  *)
(* token-set similarity are computed character by character, as the code   *)
(* and the libraries it calls compute them.  Labels (function names,       *)
(* sub-function names, seniority levels) are opaque TLA+ strings.          *)
(* Numbers that are floats in the code (scores, confidences, thresholds)   *)
(* are exact rationals <<numerator, denominator>> in lowest terms.         *)
(*                                                                         *)
(* Five specifications share the variables:                                *)
(*   SpecNormalize  normalize_title applied once and twice to every short  *)
(*                  title;                                                 *)
(*   SpecMatch      match_with_confidence and process_title on every short *)
(*                  title, under both shapes of rapidfuzz's result;        *)
(*   Spec           the service answering /categorise and /reload-config   *)
(*                  one request at a time while the document changes;      *)
(*   SpecCache      the same with cache entries expiring and one earlier   *)
(*                  call kept for comparison;                              *)
(*   SpecReload     reload_config beside a process_title call, one access  *)
(*                  of a global per step.                                  *)
(***************************************************************************)
EXTENDS Integers, Sequences, FiniteSets, TLC

VARIABLES
    FUNCTION_HIERARCHY,  \* module global (task3.py:209, rebound at 488)
    SENIORITY_KEYWORDS,  \* module global (task3.py:209, rebound at 488)
    TITLE_ALIASES,       \* module global (task3.py:209, rebound at 488)
    min_confidence,      \* settings.min_confidence (task3.py:60)
    extractOneLen,       \* length of the tuple process.extractOne returns (rapidfuzz build)
    title,               \* the raw title handed to the engine
    pc,                  \* position of the engine call in the pure-function specifications
    normalized,          \* normalize_title(title)
    renormalized,        \* normalize_title(normalize_title(title))
    match,               \* what a match_with_confidence call gave
    frame,               \* locals of process_title at its return (or the exception raised)
    configDoc,           \* the file at settings.config_path
    normCache,           \* lru_cache of normalize_title (task3.py:215)
    memo,                \* cache.memoize of process_title (task3.py:294)
    response,            \* the last HTTP response
    remembered,          \* one earlier process_title call: its title, configuration, record
    loads,               \* which load_config result each global is bound to
    reloader,            \* a thread in reload_config
    classifier           \* a thread in process_title

globalVars  == <<FUNCTION_HIERARCHY, SENIORITY_KEYWORDS, TITLE_ALIASES>>
settingVars == <<min_confidence, extractOneLen>>
engineVars  == <<title, pc, normalized, renormalized, match, frame>>
cacheVars   == <<normCache, memo>>
threadVars  == <<loads, reloader, classifier>>

vars == <<globalVars, settingVars, engineVars, configDoc, cacheVars, response, remembered,
          threadVars>>

---------------------------------------------------------------------------
(* Characters.                                                             *)

LowerSeq == <<"a","b","c","d","e","f","g","h","i","j","k","l","m",
              "n","o","p","q","r","s","t","u","v","w","x","y","z">>
UpperSeq == <<"A","B","C","D","E","F","G","H","I","J","K","L","M",
              "N","O","P","Q","R","S","T","U","V","W","X","Y","Z">>
DigitSeq == <<"0","1","2","3","4","5","6","7","8","9">>

Range(s) == {s[i] : i \in DOMAIN s}

LowerLetters == Range(LowerSeq)
UpperLetters == Range(UpperSeq)
Digits       == Range(DigitSeq)
\* what \s matches and str.strip() removes, among the characters of the model
Whitespace   == {" ", "\t", "\n"}
\* what \w matches: letters, digits and the underscore
WordChars    == LowerLetters \cup UpperLetters \cup Digits \cup {"_"}

\* code-point order of the characters tokens can hold (digits < upper < lower)
CodePoints == DigitSeq \o UpperSeq \o <<"_">> \o LowerSeq
Ord(c) == IF \E i \in DOMAIN CodePoints : CodePoints[i] = c
          THEN CHOOSE i \in DOMAIN CodePoints : CodePoints[i] = c
          ELSE 0

\* str.lower() on one character
lower(c) == IF c \in UpperLetters
            THEN LowerSeq[CHOOSE i \in DOMAIN UpperSeq : UpperSeq[i] = c]
            ELSE c

---------------------------------------------------------------------------
(* String primitives used by normalize_title.                              *)

str_lower(s) == [i \in 1..Len(s) |-> lower(s[i])]

StartsWith(s, p) == Len(p) <= Len(s) /\ SubSeq(s, 1, Len(p)) = p

\* str.replace(old, new) with old = "": new is inserted around every character
RECURSIVE ReplaceEmpty(_, _)
ReplaceEmpty(s, new) ==
    IF s = <<>> THEN new ELSE new \o <<Head(s)>> \o ReplaceEmpty(Tail(s), new)

\* str.replace(old, new): every non-overlapping occurrence, left to right
RECURSIVE ReplaceFrom(_, _, _)
ReplaceFrom(s, old, new) ==
    IF Len(s) < Len(old) THEN s
    ELSE IF StartsWith(s, old)
         THEN new \o ReplaceFrom(SubSeq(s, Len(old) + 1, Len(s)), old, new)
         ELSE <<Head(s)>> \o ReplaceFrom(Tail(s), old, new)

str_replace(s, old, new) ==
    IF old = <<>> THEN ReplaceEmpty(s, new) ELSE ReplaceFrom(s, old, new)

\* re.sub(r'[^a-zA-Z0-9\s]', '', title)
KeptByFilter(c) == c \in LowerLetters \cup UpperLetters \cup Digits \cup Whitespace
re_sub_special(s) == SelectSeq(s, KeptByFilter)

RECURSIVE lstrip(_)
lstrip(s) == IF s # <<>> /\ Head(s) \in Whitespace THEN lstrip(Tail(s)) ELSE s

RECURSIVE rstrip(_)
rstrip(s) == IF s # <<>> /\ s[Len(s)] \in Whitespace
             THEN rstrip(SubSeq(s, 1, Len(s) - 1)) ELSE s

str_strip(s) == rstrip(lstrip(s))

\* for alias, expansion in TITLE_ALIASES.items(): title = title.replace(alias, expansion)
RECURSIVE expand_aliases(_, _)
expand_aliases(s, aliases) ==
    IF aliases = <<>> THEN s
    ELSE expand_aliases(str_replace(s, Head(aliases)[1], Head(aliases)[2]), Tail(aliases))

normalize_title_unstripped(t, aliases) ==
    re_sub_special(expand_aliases(str_lower(t), aliases))

\* normalize_title's body; the table it reads is the global TITLE_ALIASES at
\* the time of the call, passed here as a parameter (the lru_cache around it
\* is modelled by normCache in the service specification)
normalize_title(t, aliases) ==
    str_strip(re_sub_special(expand_aliases(str_lower(t), aliases)))

---------------------------------------------------------------------------
(* Exact rationals for the floats of the code.                             *)

RECURSIVE GCD(_, _)
GCD(a, b) == IF b = 0 THEN a ELSE GCD(b, a % b)

Rat(n, d) == LET g == GCD(n, d) IN <<n \div g, d \div g>>
RatLeq(a, b) == a[1] * b[2] <= b[1] * a[2]
RatLess(a, b) == a[1] * b[2] < b[1] * a[2]
RatMean(a, b) == Rat(a[1] * b[2] + b[1] * a[2], 2 * a[2] * b[2])
Zero == <<0, 1>>
One  == <<1, 1>>

\* round(x, 2) in hundredths; a tie goes to the even neighbour, as round()
\* does for a float that is exactly the midpoint
round2(x) ==
    LET q == (100 * x[1]) \div x[2]
        r == (100 * x[1]) % x[2]
    IN  IF 2 * r < x[2] THEN q
        ELSE IF 2 * r > x[2] THEN q + 1
        ELSE IF q % 2 = 0 THEN q ELSE q + 1

---------------------------------------------------------------------------
(* rapidfuzz: fuzz.token_set_ratio and process.extractOne, as called at    *)
(* task3.py:231.                                                           *)

Max(a, b) == IF a >= b THEN a ELSE b

\* the length of the first token of t, which starts with one: the characters
\* before its first whitespace
TokenLen(t) ==
    IF \E i \in 1..Len(t) : t[i] \in Whitespace
    THEN (CHOOSE i \in 1..Len(t) :
              t[i] \in Whitespace /\ \A j \in 1..(i - 1) : t[j] \notin Whitespace) - 1
    ELSE Len(t)

RECURSIVE split_stripped(_)
split_stripped(t) ==
    IF t = <<>> THEN <<>>
    ELSE <<SubSeq(t, 1, TokenLen(t))>>
         \o split_stripped(lstrip(SubSeq(t, TokenLen(t) + 1, Len(t))))

\* str.split(): the maximal runs of non-whitespace characters
str_split(s) == split_stripped(lstrip(s))

RECURSIVE LexLess(_, _)
LexLess(a, b) ==
    IF b = <<>> THEN FALSE
    ELSE IF a = <<>> THEN TRUE
    ELSE IF Head(a) = Head(b) THEN LexLess(Tail(a), Tail(b))
    ELSE Ord(Head(a)) < Ord(Head(b))

Least(tokens) == CHOOSE t \in tokens : \A u \in tokens \ {t} : LexLess(t, u)

\* sorted(tokens)
RECURSIVE sorted(_)
sorted(tokens) ==
    IF tokens = {} THEN <<>>
    ELSE <<Least(tokens)>> \o sorted(tokens \ {Least(tokens)})

\* " ".join(tokens)
RECURSIVE join(_)
join(tokens) ==
    IF tokens = <<>> THEN <<>>
    ELSE IF Len(tokens) = 1 THEN Head(tokens)
    ELSE Head(tokens) \o <<" ">> \o join(Tail(tokens))

\* one row of the longest-common-subsequence table: cur[j + 1] is the entry
\* of column j
RECURSIVE LcsRow(_, _, _, _)
LcsRow(x, b, prev, cur) ==
    LET j == Len(cur) IN
    IF j > Len(b) THEN cur
    ELSE LcsRow(x, b, prev,
                Append(cur, IF x = b[j] THEN prev[j] + 1 ELSE Max(prev[j + 1], cur[j])))

RECURSIVE LcsRows(_, _, _)
LcsRows(a, b, prev) ==
    IF Len(prev) > 0 /\ a = <<>> THEN prev[Len(prev)]
    ELSE LcsRows(Tail(a), b, LcsRow(Head(a), b, prev, <<0>>))

lcs_length(a, b) == LcsRows(a, b, [j \in 1..(Len(b) + 1) |-> 0])

\* insertions and deletions that turn a into b
indel_distance(a, b) == Len(a) + Len(b) - 2 * lcs_length(a, b)

\* 100 - 100 * dist / lensum
norm_distance(dist, lensum) ==
    IF lensum > 0 THEN Rat(100 * (lensum - dist), lensum) ELSE <<100, 1>>

RatMax(a, b) == IF RatLess(a, b) THEN b ELSE a

\* token_set_ratio once the common tokens are known to leave something on
\* both sides: the best of the three pairwise ratios
token_set_lengths(sect_len, diff_ab, diff_ba) ==
    LET sep == IF sect_len # 0 THEN 1 ELSE 0
        sect_ab_len == sect_len + sep + Len(diff_ab)
        sect_ba_len == sect_len + sep + Len(diff_ba)
    IN  IF sect_len = 0
        THEN norm_distance(indel_distance(diff_ab, diff_ba), sect_ab_len + sect_ba_len)
        ELSE RatMax(norm_distance(indel_distance(diff_ab, diff_ba), sect_ab_len + sect_ba_len),
                    RatMax(norm_distance(sep + Len(diff_ab), sect_len + sect_ab_len),
                           norm_distance(sep + Len(diff_ba), sect_len + sect_ba_len)))

\* intersect: the tokens in common; diff_ab, diff_ba: the others of each
\* side, sorted and joined
token_set_parts(intersect, diff_ab, diff_ba) ==
    IF intersect # {} /\ (diff_ab = <<>> \/ diff_ba = <<>>) THEN <<100, 1>>
    ELSE token_set_lengths(Len(join(sorted(intersect))), diff_ab, diff_ba)

token_set_tokens(tokens_a, tokens_b) ==
    IF tokens_a = {} \/ tokens_b = {} THEN Zero
    ELSE token_set_parts(tokens_a \cap tokens_b,
                         join(sorted(tokens_a \ tokens_b)),
                         join(sorted(tokens_b \ tokens_a)))

\* fuzz.token_set_ratio(s1, s2): a score in 0..100
token_set_ratio(s1, s2) == token_set_tokens(Range(str_split(s1)), Range(str_split(s2)))

NoneValue == "<None>"
NoResult == <<>>

\* process.extractOne(query, choices, scorer=fuzz.token_set_ratio): the best
\* choice, the first one among equal scores, as (choice, score, index)
\* the better of two results, the earlier one when the scores are equal
better_of(best, later) ==
    IF best = NoResult \/ RatLess(best[2], later[2]) THEN later ELSE best

RECURSIVE extractOneFrom(_, _, _, _)
extractOneFrom(query, choices, i, best) ==
    IF i > Len(choices) THEN best
    ELSE extractOneFrom(query, choices, i + 1,
                        better_of(best, <<choices[i], token_set_ratio(query, choices[i]), i - 1>>))

\* resultLen is the length of the tuple the installed rapidfuzz returns:
\* 3 (choice, score, index), or 2 (choice, score) as the annotation of
\* fuzzy_match and the unpacking at task3.py:262 and 276 expect
result_tuple(best, resultLen) ==
    IF best = NoResult THEN NoResult ELSE SubSeq(best, 1, resultLen)

extractOne(query, choices, resultLen) ==
    result_tuple(extractOneFrom(query, choices, 1, NoResult), resultLen)

fuzzy_match_any_score(t, choices, min_score, resultLen) ==
    extractOne(t, choices, resultLen)

\* return result if result and result[1] >= min_score else None
at_least(result, min_score) ==
    IF result # NoResult /\ RatLeq(<<min_score, 1>>, result[2]) THEN result ELSE NoResult

\* fuzzy_match: None (NoResult) unless the best score reaches min_score
fuzzy_match(t, choices, min_score, resultLen) ==
    at_least(extractOne(t, choices, resultLen), min_score)

FuzzyMinScore == 70

---------------------------------------------------------------------------
(* match_with_confidence and process_title.                                *)
(* A loaded table is [type, items]: type "dict" with its items in          *)
(* iteration order, or "NoneType" for a key the document leaves null.      *)

Dict(items) == [type |-> "dict", items |-> items]
NoneTable   == [type |-> "NoneType", items |-> <<>>]

IsWordAt(s, p) == p >= 1 /\ p <= Len(s) /\ s[p] \in WordChars
\* \b between positions p and p + 1
Boundary(s, p) == IsWordAt(s, p) # IsWordAt(s, p + 1)

\* re.search(rf'\b{key}\b', s) for a key of letters, digits and spaces
re_search_word(key, s) ==
    \E i \in 1..(Len(s) + 1) :
        /\ i + Len(key) - 1 <= Len(s)
        /\ SubSeq(s, i, i + Len(key) - 1) = key
        /\ Boundary(s, i - 1)
        /\ Boundary(s, i + Len(key) - 1)

RECURSIVE Flatten(_)
Flatten(seqs) == IF seqs = <<>> THEN <<>> ELSE Head(seqs) \o Flatten(Tail(seqs))

Keys(items) == [i \in 1..Len(items) |-> items[i][1]]
HasKey(items, k) == \E i \in DOMAIN items : items[i][1] = k
Lookup(items, k) == items[CHOOSE i \in DOMAIN items : items[i][1] = k][2]

Returned(v) == [exc |-> "", value |-> v]
Raised(e)   == [exc |-> e, value |-> <<>>]

\* list.sort(key=confidence, reverse=True): stable, so equal confidences keep
\* the order in which they were appended; conf is the position of the
\* confidence in a candidate
RECURSIVE InsertDesc(_, _, _)
InsertDesc(sortedSoFar, m, conf) ==
    IF sortedSoFar = <<>> THEN <<m>>
    ELSE IF RatLess(Head(sortedSoFar)[conf], m[conf])
         THEN <<m>> \o sortedSoFar
         ELSE <<Head(sortedSoFar)>> \o InsertDesc(Tail(sortedSoFar), m, conf)

RECURSIVE SortDescFrom(_, _, _)
SortDescFrom(matches, acc, conf) ==
    IF matches = <<>> THEN acc
    ELSE SortDescFrom(Tail(matches), InsertDesc(acc, Head(matches), conf), conf)

sort_desc_last_first(matches, conf) ==
    [i \in 1..Len(matches) |-> matches[Len(matches) + 1 - i]]

sort_desc(matches, conf) == SortDescFrom(matches, <<>>, conf)

\* (func, value, 1.0) for each keyword of one function found in the title
function_hits(func, hits) == [i \in 1..Len(hits) |-> <<func, hits[i][2], One>>]

\* the exact matches of the function axis: (func, value, 1.0) per keyword
\* found, functions in hierarchy order, keywords in the function's order
function_exact(normalized_title, hierarchy) ==
    Flatten([f \in 1..Len(hierarchy) |->
        function_hits(hierarchy[f][1],
                      SelectSeq(hierarchy[f][2],
                                LAMBDA kv : re_search_word(kv[1], normalized_title)))])

owner_matches(owners, matched_key, confidence) ==
    [i \in 1..Len(owners) |-> <<owners[i][1], Lookup(owners[i][2], matched_key), confidence>>]

\* the functions that hold matched_key, in hierarchy order
function_owners(hierarchy, matched_key, confidence) ==
    owner_matches(SelectSeq(hierarchy, LAMBDA fs : HasKey(fs[2], matched_key)),
                  matched_key, confidence)

seniority_hits(hits) == [i \in 1..Len(hits) |-> <<hits[i][2], One>>]

seniority_exact(normalized_title, items) ==
    seniority_hits(SelectSeq(items, LAMBDA kv : re_search_word(kv[1], normalized_title)))

\* score / 100
score_confidence(score) == Rat(score[1], 100 * score[2])

first_function(best) == Returned(<<<<best[1], best[2]>>, best[3]>>)

\* the return of the function axis
best_function(matches) ==
    IF matches # <<>> THEN first_function(sort_desc(matches, 3)[1])
    ELSE Returned(<<<<NoneValue, NoneValue>>, Zero>>)

\* the return of the seniority axis
best_seniority(matches) ==
    IF matches # <<>> THEN Returned(sort_desc(matches, 2)[1])
    ELSE Returned(<<NoneValue, Zero>>)

\* matched_key, score = fuzzy_match_result
function_fuzzy(items, fuzzy_match_result) ==
    IF fuzzy_match_result = NoResult THEN best_function(<<>>)
    ELSE IF Len(fuzzy_match_result) # 2 THEN Raised("ValueError")
    ELSE best_function(function_owners(items, fuzzy_match_result[1],
                                       score_confidence(fuzzy_match_result[2])))

seniority_fuzzy(items, fuzzy_match_result) ==
    IF fuzzy_match_result = NoResult THEN best_seniority(<<>>)
    ELSE IF Len(fuzzy_match_result) # 2 THEN Raised("ValueError")
    ELSE best_seniority(<< <<Lookup(items, fuzzy_match_result[1]),
                             score_confidence(fuzzy_match_result[2])>> >>)

\* exact: the exact matches; the fuzzy fallback runs only without any
function_matches(normalized_title, items, exact, resultLen) ==
    IF exact # <<>> THEN best_function(exact)
    ELSE function_fuzzy(items,
             fuzzy_match(normalized_title,
                         Flatten([f \in 1..Len(items) |-> Keys(items[f][2])]),
                         FuzzyMinScore, resultLen))

seniority_matches(normalized_title, items, exact, resultLen) ==
    IF exact # <<>> THEN best_seniority(exact)
    ELSE seniority_fuzzy(items,
             fuzzy_match(normalized_title, Keys(items), FuzzyMinScore, resultLen))

\* match_with_confidence after its first line: normalized_title is what
\* normalize_title(title) returned
match_normalized(normalized_title, keywords, is_function, resultLen) ==
    IF keywords.type # "dict" THEN Raised("AttributeError")
    ELSE IF is_function
    THEN function_matches(normalized_title, keywords.items,
                          function_exact(normalized_title, keywords.items), resultLen)
    ELSE seniority_matches(normalized_title, keywords.items,
                           seniority_exact(normalized_title, keywords.items), resultLen)

match_unnormalized(t, keywords, is_function, aliases, resultLen) ==
    match_normalized(t, keywords, is_function, resultLen)

\* match_with_confidence(title, keywords, is_function), its normalize_title
\* call uncached
match_with_confidence(t, keywords, is_function, aliases, resultLen) ==
    IF aliases.type # "dict" THEN Raised("AttributeError")
    ELSE match_normalized(normalize_title(t, aliases.items), keywords, is_function, resultLen)

\* `not x` for a label or None
Falsy(x) == x = NoneValue \/ x = ""

matched_from_rounded(confidence, threshold) ==
    RatLeq(threshold, <<round2(confidence), 100>>)

\* matched = confidence >= settings.min_confidence
is_matched(confidence, threshold) == RatLeq(threshold, confidence)

\* process_title from line 303 on: the locals at its return.  The field
\* confidence of the result is in hundredths; processing_time_ms, a clock
\* reading, is left out.
aggregate(t, function, sub_function, func_conf, seniority, seniority_conf, threshold) ==
    LET confidence == RatMean(func_conf, seniority_conf)
        matched == is_matched(confidence, threshold)
        warnings == (IF Falsy(function) THEN <<"Could not determine function">> ELSE <<>>)
                    \o (IF Falsy(seniority) THEN <<"Could not determine seniority">> ELSE <<>>)
    IN  [exc |-> "",
         func_conf |-> func_conf,
         seniority_conf |-> seniority_conf,
         result |-> [function |-> function,
                     sub_function |-> sub_function,
                     seniority |-> seniority,
                     confidence |-> round2(confidence),
                     matched |-> matched,
                     warnings |-> warnings,
                     original_title |-> t]]

RaisedFrame(e) == [exc |-> e, func_conf |-> Zero, seniority_conf |-> Zero, result |-> NoneValue]

\* process_title given what its two match_with_confidence calls gave
process_title_from(t, f, s, threshold) ==
    IF f.exc # "" THEN RaisedFrame(f.exc)
    ELSE IF s.exc # "" THEN RaisedFrame(s.exc)
    ELSE aggregate(t, f.value[1][1], f.value[1][2], f.value[2], s.value[1], s.value[2], threshold)

\* process_title(title) with nothing cached
process_title(t, hierarchy, seniorityTable, aliases, threshold, resultLen) ==
    process_title_from(t,
                       match_with_confidence(t, hierarchy, TRUE, aliases, resultLen),
                       match_with_confidence(t, seniorityTable, FALSE, aliases, resultLen),
                       threshold)

---------------------------------------------------------------------------
(* Built-in tables (get_default_mappings).  A mapping is the sequence of   *)
(* its items in iteration order: <<key, value>> pairs.                     *)

DefaultFunctions ==
    <<<<"Marketing", <<<<<<"g","r","o","w","t","h">>, "Growth">>,
            <<<<"b","r","a","n","d">>, "Brand Management">>,
            <<<<"p","a","i","d"," ","m","e","d","i","a">>, "Performance Marketing">>,
            <<<<"c","o","n","t","e","n","t">>, "Content Marketing">>,
            <<<<"d","i","g","i","t","a","l">>, "Digital Marketing">>>>>>,
      <<"Sales", <<<<<<"a","c","c","o","u","n","t">>, "Account Management">>,
            <<<<"b","u","s","i","n","e","s","s"," ","d","e","v","e","l","o","p","m","e","n","t">>, "Business Development">>,
            <<<<"s","a","l","e","s"," ","d","e","v","e","l","o","p","m","e","n","t">>, "Sales Development">>>>>>,
      <<"Engineering", <<<<<<"f","r","o","n","t","e","n","d">>, "Frontend Development">>,
            <<<<"b","a","c","k","e","n","d">>, "Backend Development">>,
            <<<<"f","u","l","l","s","t","a","c","k">>, "Full Stack Development">>,
            <<<<"s","o","f","t","w","a","r","e">>, "Software Engineering">>>>>>>>

DefaultSeniority ==
    <<<<<<"i","n","t","e","r","n">>, "Entry">>,
      <<<<"j","u","n","i","o","r">>, "Entry">>,
      <<<<"a","s","s","o","c","i","a","t","e">>, "Entry">>,
      <<<<"a","n","a","l","y","s","t">>, "Entry">>,
      <<<<"s","p","e","c","i","a","l","i","s","t">>, "Mid-Level">>,
      <<<<"m","a","n","a","g","e","r">>, "Manager">>,
      <<<<"d","i","r","e","c","t","o","r">>, "Director">>,
      <<<<"v","p">>, "VP">>,
      <<<<"c","h","i","e","f">>, "C-Level">>,
      <<<<"c","m","o">>, "C-Level">>,
      <<<<"c","t","o">>, "C-Level">>,
      <<<<"h","e","a","d">>, "Director">>,
      <<<<"l","e","a","d">>, "Manager">>,
      <<<<"s","r">>, "Senior">>,
      <<<<"s","e","n","i","o","r">>, "Senior">>>>

DefaultAliases ==
    <<<<<<"d","e","v">>, <<"d","e","v","e","l","o","p","e","r">>>>,
      <<<<"e","n","g">>, <<"e","n","g","i","n","e","e","r">>>>,
      <<<<"m","g","r">>, <<"m","a","n","a","g","e","r">>>>>>

get_default_mappings ==
    <<Dict(DefaultFunctions), Dict(DefaultSeniority), Dict(DefaultAliases)>>

---------------------------------------------------------------------------
(* The configuration document and load_config.                             *)
(* A document is absent, unparseable, or parsed by yaml.safe_load into     *)
(* None (an empty file), a list, or a mapping of top-level keys to tables. *)

\* functions: {Marketing: {growth: Growth, brand: Brand Management},
\*             Sales: {sales: Direct Sales, growth: Sales Growth}}
ConfiguredFunctions ==
    << <<"Marketing", << <<<<"g","r","o","w","t","h">>, "Growth">>,
                         <<<<"b","r","a","n","d">>, "Brand Management">> >> >>,
       <<"Sales",     << <<<<"s","a","l","e","s">>, "Direct Sales">>,
                         <<<<"g","r","o","w","t","h">>, "Sales Growth">> >> >> >>

\* seniority: {vp: VP, sr: Senior, senior: Senior}
ConfiguredSeniority ==
    << <<<<"v","p">>, "VP">>,
       <<<<"s","r">>, "Senior">>,
       <<<<"s","e","n","i","o","r">>, "Senior">> >>

\* aliases: {snr: senior}
ConfiguredAliases == << << <<"s","n","r">>, <<"s","e","n","i","o","r">> >> >>

Absent      == [state |-> "absent",      type |-> "NoneType", items |-> <<>>]
Unparseable == [state |-> "unparseable", type |-> "NoneType", items |-> <<>>]
Parsed(type, items) == [state |-> "parsed", type |-> type, items |-> items]

\* an empty file
EmptyDoc == Parsed("NoneType", <<>>)
\* a document whose top level is a list
ListDoc == Parsed("list", <<>>)
\* only the key functions
FunctionsOnlyDoc == Parsed("dict", << <<"functions", Dict(ConfiguredFunctions)>> >>)
\* the three keys
FullDoc == Parsed("dict", << <<"functions", Dict(ConfiguredFunctions)>>,
                             <<"seniority", Dict(ConfiguredSeniority)>>,
                             <<"aliases", Dict(ConfiguredAliases)>> >>)
\* the key seniority with nothing under it
NullSeniorityDoc == Parsed("dict", << <<"functions", Dict(ConfiguredFunctions)>>,
                                      <<"seniority", NoneTable>>,
                                      <<"aliases", Dict(ConfiguredAliases)>> >>)

ConfigDocs == {Absent, Unparseable, EmptyDoc, ListDoc, FunctionsOnlyDoc, FullDoc,
               NullSeniorityDoc}

\* mappings.get(key, {})
mapping_get(items, key) == IF HasKey(items, key) THEN Lookup(items, key) ELSE Dict(<<>>)

\* load_config: FileNotFoundError and yaml.YAMLError fall back to the
\* defaults; .get on what safe_load returned raises AttributeError when that
\* is no mapping
load_config(doc) ==
    IF doc.state \in {"absent", "unparseable"}
    THEN Returned(get_default_mappings)
    ELSE IF doc.type # "dict" THEN Raised("AttributeError")
    ELSE Returned(<<mapping_get(doc.items, "functions"),
                    mapping_get(doc.items, "seniority"),
                    mapping_get(doc.items, "aliases")>>)

---------------------------------------------------------------------------
(* process_title behind its two caches.                                    *)

\* the titles the service is asked about: "snr growth" and "growt"
ServiceTitles == { <<"s","n","r"," ","g","r","o","w","t","h">>, <<"g","r","o","w","t">> }

NoRecord == [function |-> NoneValue, sub_function |-> NoneValue, seniority |-> NoneValue,
             confidence |-> 0, matched |-> FALSE, warnings |-> <<>>, original_title |-> <<>>]

Miss == [hit |-> FALSE, value |-> <<>>]
EmptyNormCache == [t \in ServiceTitles |-> Miss]
EmptyMemo == [t \in ServiceTitles |-> [hit |-> FALSE, value |-> NoRecord]]

\* a normalize_title call that ran its body: n is stored under t
normalized_miss(t, nc, n) ==
    [exc |-> "", value |-> n, read |-> TRUE,
     nc |-> [nc EXCEPT ![t] = [hit |-> TRUE, value |-> n]]]

\* normalize_title(title) through its lru_cache: the value and the cache
\* after the call; read tells whether TITLE_ALIASES was read
cached_normalize(t, nc, aliases) ==
    IF nc[t].hit THEN [exc |-> "", value |-> nc[t].value, nc |-> nc, read |-> FALSE]
    ELSE IF aliases.type # "dict"
         THEN [exc |-> "AttributeError", value |-> <<>>, nc |-> nc, read |-> TRUE]
         ELSE normalized_miss(t, nc, normalize_title(t, aliases.items))

\* match_with_confidence after its first line, n being what the cached
\* normalize_title gave
match_cached(n, keywords, is_function, resultLen) ==
    IF n.exc # "" THEN [m |-> Raised(n.exc), nc |-> n.nc]
    ELSE [m |-> match_normalized(n.value, keywords, is_function, resultLen), nc |-> n.nc]

\* match_with_confidence(title, keywords, is_function), its normalize_title
\* call through the cache
cached_match(t, keywords, is_function, nc, aliases, resultLen) ==
    match_cached(cached_normalize(t, nc, aliases), keywords, is_function, resultLen)

\* process_title returns fr: the memoize decorator stores a returned value
memoized(t, fr, nc, mc) ==
    [frame |-> fr, nc |-> nc,
     mc |-> IF fr.exc = "" THEN [mc EXCEPT ![t] = [hit |-> TRUE, value |-> fr.result]]
            ELSE mc]

\* line 301 and the rest of the body, first being what line 300 gave
process_title_second(t, first, second, mc, threshold) ==
    memoized(t, process_title_from(t, first.m, second.m, threshold), second.nc, mc)

process_title_first(t, first, mc, seniorityTable, aliases, threshold, resultLen) ==
    process_title_second(t, first,
        IF first.m.exc # "" THEN first
        ELSE cached_match(t, seniorityTable, FALSE, first.nc, aliases, resultLen),
        mc, threshold)

\* process_title(title) as callers see it: the memoized record on a hit;
\* otherwise the body runs, normalising through the lru_cache, and its
\* return value is memoized.  Gives the frame and the two caches afterwards.
cached_process_title(t, nc, mc, hierarchy, seniorityTable, aliases, threshold, resultLen) ==
    IF mc[t].hit
    THEN [frame |-> [RaisedFrame("") EXCEPT !.result = mc[t].value], nc |-> nc, mc |-> mc]
    ELSE process_title_first(t, cached_match(t, hierarchy, TRUE, nc, aliases, resultLen),
                             mc, seniorityTable, aliases, threshold, resultLen)

\* process_title_wrapper: an exception becomes an error record
ErrorRecord(t, e) == [original_title |-> t, error |-> e, matched |-> FALSE]

---------------------------------------------------------------------------
(* categorise_job_titles.                                                  *)

MaxTitlesPerRequest == 100
AsyncBatchThreshold == 10

\* [t.strip() for t in data['titles'] if t.strip()]
strip_titles(ts) == SelectSeq([i \in 1..Len(ts) |-> str_strip(ts[i])], LAMBDA t : t # <<>>)

\* the batch after a title that raised under process_title_wrapper
with_failed(rest, i) == [rest EXCEPT !.failed = @ \cup {i}]

\* the results of the titles from position i on, one call after the other:
\* the records so far, the caches, and the first exception that escaped.
\* With wrapped (process_title_wrapper) no exception escapes.
RECURSIVE process_all(_, _, _, _, _, _, _)
RECURSIVE process_next(_, _, _, _, _, _)
process_next(ts, i, acc, r, wrapped, env) ==
    IF r.frame.exc = ""
    THEN process_all(ts, i + 1, Append(acc, r.frame.result), r.nc, r.mc, wrapped, env)
    ELSE IF wrapped
    THEN with_failed(process_all(ts, i + 1, Append(acc, ErrorRecord(ts[i], r.frame.exc)),
                                 r.nc, r.mc, wrapped, env), i)
    ELSE [exc |-> r.frame.exc, results |-> <<>>, nc |-> r.nc, mc |-> r.mc, failed |-> {i}]

process_all(ts, i, acc, nc, mc, wrapped, env) ==
    IF i > Len(ts) THEN [exc |-> "", results |-> acc, nc |-> nc, mc |-> mc, failed |-> {}]
    ELSE process_next(ts, i, acc,
             cached_process_title(ts[i], nc, mc, env[1], env[2], env[3], env[4], env[5]),
             wrapped, env)

NoResponse == [route |-> "", status |-> 0, error |-> "", titles |-> <<>>, results |-> <<>>,
               failed |-> {}, snapshot |-> <<>>]

BadRequest(e) == [NoResponse EXCEPT !.route = "categorise", !.status = 400, !.error = e]

\* line 404: only a batch of more than ten titles goes through
\* process_title_wrapper
uses_wrapper(ts) == Len(ts) > AsyncBatchThreshold

\* the response to a batch that went through processing
batch_response(titles, r, env) ==
    [response |-> [route |-> "categorise",
                   status |-> IF r.exc = "" THEN 200 ELSE 500,
                   error |-> r.exc,
                   titles |-> titles,
                   results |-> r.results,
                   failed |-> r.failed,
                   snapshot |-> <<env[1], env[2], env[3]>>],
     nc |-> r.nc, mc |-> r.mc]

rejected(e, nc, mc) == [response |-> BadRequest(e), nc |-> nc, mc |-> mc]

\* the handler once titles is built
categorise_titles(titles, nc, mc, env) ==
    IF titles = <<>> THEN rejected("No valid titles provided", nc, mc)
    ELSE IF Len(titles) > MaxTitlesPerRequest
    THEN rejected("Too many titles in one request", nc, mc)
    ELSE batch_response(titles,
                        process_all(titles, 1, <<>>, nc, mc, uses_wrapper(titles), env), env)

\* the handler on a request [is_json, field, is_list, titles]: the response
\* and the caches afterwards
categorise_job_titles(req, nc, mc, env) ==
    IF ~req.is_json THEN rejected("Missing JSON in request", nc, mc)
    ELSE IF req.field = "title"
    THEN categorise_titles(strip_titles(req.titles), nc, mc, env)
    ELSE IF req.field = "titles"
    THEN IF ~req.is_list THEN rejected("Invalid format for 'titles' field", nc, mc)
         ELSE categorise_titles(strip_titles(req.titles), nc, mc, env)
    ELSE rejected("Missing 'title' or 'titles' field", nc, mc)

---------------------------------------------------------------------------
(* Values of the variables a specification does not use.                   *)

NoCall == [hit |-> FALSE, title |-> <<>>, snapshot |-> <<>>, record |-> NoRecord]
IdleReloader == [pc |-> "idle", triple |-> <<>>, load |-> 0]
IdleClassifier == [pc |-> "idle", title |-> <<>>, hierarchy |-> Dict(<<>>),
                   function |-> Raised(""), frame |-> RaisedFrame(""), reads |-> {}]

ServiceIdle ==
    /\ configDoc = Absent
    /\ normCache = EmptyNormCache
    /\ memo = EmptyMemo
    /\ response = NoResponse
    /\ remembered = NoCall
    /\ loads = [f |-> 0, s |-> 0, a |-> 0, n |-> 0]
    /\ reloader = IdleReloader
    /\ classifier = IdleClassifier

---------------------------------------------------------------------------
(* Normalisation as a pure function: the title is any string of at most    *)
(* MaxTitleLen characters of NormChars, the alias table is the built-in    *)
(* one or a configured one whose expansion is capitalised.                 *)

MaxTitleLen == 4

NormChars == {"d", "e", "v", "n", "g", "D", "1", " ", "\t", "-"}

\* aliases: {dev: Developer}, as a configuration document may spell it
CapitalisedAliases == << << <<"d","e","v">>, <<"D","e","v","e","l","o","p","e","r">> >> >>

StringsUpTo(chars, n) == UNION {[1..k -> chars] : k \in 0..n}

InitNormalize ==
    /\ title \in StringsUpTo(NormChars, MaxTitleLen)
    /\ TITLE_ALIASES \in {Dict(DefaultAliases), Dict(CapitalisedAliases)}
    /\ FUNCTION_HIERARCHY = Dict(<<>>)
    /\ SENIORITY_KEYWORDS = Dict(<<>>)
    /\ min_confidence = <<7, 10>>
    /\ extractOneLen = 3
    /\ pc = "start"
    /\ normalized = <<>>
    /\ renormalized = <<>>
    /\ match = Raised("")
    /\ frame = RaisedFrame("")
    /\ ServiceIdle

\* normalize_title(title)
Normalize ==
    /\ pc = "start"
    /\ normalized' = normalize_title(title, TITLE_ALIASES.items)
    /\ pc' = "normalized"
    /\ UNCHANGED <<globalVars, settingVars, title, renormalized, match, frame>>
    /\ UNCHANGED <<configDoc, cacheVars, response, remembered, threadVars>>

\* normalize_title(normalize_title(title))
Renormalize ==
    /\ pc = "normalized"
    /\ renormalized' = normalize_title(normalized, TITLE_ALIASES.items)
    /\ pc' = "renormalized"
    /\ UNCHANGED <<globalVars, settingVars, title, normalized, match, frame>>
    /\ UNCHANGED <<configDoc, cacheVars, response, remembered, threadVars>>

NextNormalize == Normalize \/ Renormalize

SpecNormalize == InitNormalize /\ [][NextNormalize]_vars

HasUpper(s) == \E i \in DOMAIN s : s[i] \in UpperLetters

\* C5: with the default alias table, normalising a normalised title changes
\* nothing: normalize_title(normalize_title(x)) = normalize_title(x).
C5_NormalizeIdempotent ==
    (pc = "renormalized" /\ TITLE_ALIASES.items = DefaultAliases) => renormalized = normalized

\* C9 as stated: the output holds only lowercase ASCII letters, digits and
\* single spaces: no tab or newline, no run of two spaces, and no space at
\* either end.
C9_SingleSpacesOnly ==
    pc # "start" =>
        /\ \A i \in DOMAIN normalized : normalized[i] \in LowerLetters \cup Digits \cup {" "}
        /\ \A i \in 1..(Len(normalized) - 1) : ~(normalized[i] = " " /\ normalized[i + 1] = " ")
        /\ normalized # <<>> => (normalized[1] # " " /\ normalized[Len(normalized)] # " ")

\* C9 as amended: the output holds only ASCII letters, digits and whitespace
\* characters, with no whitespace at either end; interior whitespace is kept
\* as it was, and the letters are lowercase when no alias expansion of the
\* table in use holds an uppercase letter.
C9_OutputCharset ==
    pc # "start" =>
        /\ \A i \in DOMAIN normalized :
              normalized[i] \in LowerLetters \cup UpperLetters \cup Digits \cup Whitespace
        /\ normalized # <<>> =>
              (normalized[1] \notin Whitespace /\ normalized[Len(normalized)] \notin Whitespace)
        /\ (\A a \in Range(TITLE_ALIASES.items) : ~HasUpper(a[2])) => ~HasUpper(normalized)

\* a title with an uppercase letter, punctuation and surrounding whitespace
\* was normalised, and the output keeps an interior tab or a run of spaces
C9_Witness ==
    /\ pc = "normalized"
    /\ HasUpper(title)
    /\ \E i \in DOMAIN title : ~KeptByFilter(title[i])
    /\ \E i \in 1..(Len(normalized) - 1) :
          \/ normalized[i] = "\t"
          \/ normalized[i] \in Whitespace /\ normalized[i + 1] \in Whitespace

---------------------------------------------------------------------------
(* The matching engine as a pure function of the title, the configuration  *)
(* snapshot, the threshold and the rapidfuzz build.                        *)

MaxPieces == 3

\* a title is at most MaxPieces of these, one after the other
TitlePieces ==
    { <<"V","P">>, <<"s","r">>, <<"s","n","r">>, <<"g","r","o","w","t","h">>,
      <<"g","r","o","w","t">>, <<" ">>, <<"-">> }

TitlesUpTo(pieces, n) == {Flatten(ps) : ps \in UNION {[1..k -> pieces] : k \in 0..n}}

\* MIN_CONFIDENCE: the default 0.7, and 0.5 and 0.451 as configured values
MinConfidences == { <<7, 10>>, <<1, 2>>, <<451, 1000>> }

InitMatch ==
    /\ title \in TitlesUpTo(TitlePieces, MaxPieces)
    /\ FUNCTION_HIERARCHY = Dict(ConfiguredFunctions)
    /\ SENIORITY_KEYWORDS = Dict(ConfiguredSeniority)
    /\ TITLE_ALIASES = Dict(ConfiguredAliases)
    /\ min_confidence \in MinConfidences
    /\ extractOneLen \in {2, 3}
    /\ pc = "start"
    /\ normalized = <<>>
    /\ renormalized = <<>>
    /\ match = Raised("")
    /\ frame = RaisedFrame("")
    /\ ServiceIdle

\* match_with_confidence(title, FUNCTION_HIERARCHY, is_function=True)
MatchFunction ==
    /\ pc = "start"
    /\ match' = match_with_confidence(title, FUNCTION_HIERARCHY, TRUE, TITLE_ALIASES, extractOneLen)
    /\ pc' = "function_matched"
    /\ UNCHANGED <<globalVars, settingVars, title, normalized, renormalized, frame>>
    /\ UNCHANGED <<configDoc, cacheVars, response, remembered, threadVars>>

\* match_with_confidence(title, SENIORITY_KEYWORDS)
MatchSeniority ==
    /\ pc = "start"
    /\ match' = match_with_confidence(title, SENIORITY_KEYWORDS, FALSE, TITLE_ALIASES, extractOneLen)
    /\ pc' = "seniority_matched"
    /\ UNCHANGED <<globalVars, settingVars, title, normalized, renormalized, frame>>
    /\ UNCHANGED <<configDoc, cacheVars, response, remembered, threadVars>>

\* process_title(title)
ProcessTitle ==
    /\ pc = "start"
    /\ frame' = process_title(title, FUNCTION_HIERARCHY, SENIORITY_KEYWORDS, TITLE_ALIASES,
                              min_confidence, extractOneLen)
    /\ pc' = "processed"
    /\ UNCHANGED <<globalVars, settingVars, title, normalized, renormalized, match>>
    /\ UNCHANGED <<configDoc, cacheVars, response, remembered, threadVars>>

NextMatch == MatchFunction \/ MatchSeniority \/ ProcessTitle

SpecMatch == InitMatch /\ [][NextMatch]_vars

\* key stands in s between whitespace or the ends of s
WholeWordIn(key, s) ==
    \E i \in 1..Len(s) : \E j \in i..Len(s) :
        /\ SubSeq(s, i, j) = key
        /\ i = 1 \/ s[i - 1] \in Whitespace
        /\ j = Len(s) \/ s[j + 1] \in Whitespace

\* key stands in the raw title, case-insensitively, between characters that
\* are no letters, digits or underscores
RawWholeWordIn(key, raw) ==
    \E i \in 1..Len(raw) : \E j \in i..Len(raw) :
        /\ str_lower(SubSeq(raw, i, j)) = key
        /\ i = 1 \/ raw[i - 1] \notin WordChars
        /\ j = Len(raw) \/ raw[j + 1] \notin WordChars

\* C6 as stated: a raw title that holds a seniority key as a whole word
\* gets seniority confidence exactly 1.0, whatever normalisation does to it.
C6_RawWholeWordIsExact ==
    (pc = "seniority_matched"
     /\ \E kv \in Range(SENIORITY_KEYWORDS.items) : RawWholeWordIn(kv[1], title))
    => (match.exc = "" /\ match.value[2] = One)

\* C6 as amended: a title whose normalised form holds a seniority key as a
\* whole word gets seniority confidence exactly 1.0.
C6_NormalizedWholeWordIsExact ==
    (pc = "seniority_matched"
     /\ \E kv \in Range(SENIORITY_KEYWORDS.items) :
            WholeWordIn(kv[1], normalize_title(title, TITLE_ALIASES.items)))
    => (match.exc = "" /\ match.value[2] = One)

\* a title that normalisation changed (case, an alias, punctuation) holds a
\* key as a whole word once normalised, and the seniority axis was matched
C6_Witness ==
    /\ pc = "seniority_matched"
    /\ \E i \in DOMAIN title : title[i] = "-"
    /\ HasUpper(title)
    /\ \E kv \in Range(SENIORITY_KEYWORDS.items) :
            WholeWordIn(kv[1], normalize_title(title, TITLE_ALIASES.items))
    /\ match.exc = "" /\ match.value[2] = One

\* C7 as stated: the confidence field is the mean of the two axis
\* confidences, and matched holds exactly when that field reaches
\* min_confidence.
C7_FieldIsMean ==
    (pc = "processed" /\ frame.exc = "") =>
        LET a == frame.func_conf
            b == frame.seniority_conf
            field == frame.result.confidence
        IN  /\ field * (2 * a[2] * b[2]) = 100 * (a[1] * b[2] + b[1] * a[2])
            /\ frame.result.matched <=> (min_confidence[1] * 100 <= field * min_confidence[2])

\* C7 as amended: the confidence field is the mean of the two axis
\* confidences rounded to two decimals (within 0.005 of the mean), and
\* matched holds exactly when the unrounded mean reaches min_confidence.
C7_FieldIsRoundedMean ==
    (pc = "processed" /\ frame.exc = "") =>
        LET a == frame.func_conf
            b == frame.seniority_conf
            num == a[1] * b[2] + b[1] * a[2]
            den == 2 * a[2] * b[2]
            field == frame.result.confidence
            diff == 100 * num - field * den
        IN  /\ 2 * diff <= den /\ -2 * diff <= den
            /\ frame.result.matched <=> (min_confidence[1] * den <= num * min_confidence[2])

\* a record whose mean is no whole number of hundredths, under a threshold
\* that lies between the mean and the field
C7_Witness ==
    /\ pc = "processed" /\ frame.exc = ""
    /\ LET a == frame.func_conf
           b == frame.seniority_conf
           num == a[1] * b[2] + b[1] * a[2]
           den == 2 * a[2] * b[2]
       IN  /\ (100 * num) % den # 0
           /\ frame.result.matched
           /\ ~(min_confidence[1] * 100 <= frame.result.confidence * min_confidence[2])

\* the index pairs <<f, k>> of the hierarchy's keywords, and their order of
\* iteration: functions in hierarchy order, then keywords in the function's
KeywordPlaces(hierarchy) ==
    UNION {{<<f, k>> : k \in DOMAIN hierarchy[f][2]} : f \in DOMAIN hierarchy}
PlaceBefore(p, q) == p[1] < q[1] \/ (p[1] = q[1] /\ p[2] < q[2])
First(places) == CHOOSE p \in places : \A q \in places \ {p} : PlaceBefore(p, q)

\* the keyword of the best score, the first one among equal scores
IsFuzzyWinner(k, keys, s) ==
    /\ \A j \in DOMAIN keys : RatLeq(token_set_ratio(s, keys[j]), token_set_ratio(s, keys[k]))
    /\ \A j \in 1..(k - 1) : RatLess(token_set_ratio(s, keys[j]), token_set_ratio(s, keys[k]))

FuzzyWinnerHeldTwice ==
    /\ pc = "function_matched" /\ match.exc = "" /\ match.value[1][1] # NoneValue
    /\ LET h == FUNCTION_HIERARCHY.items
           s == normalize_title(title, TITLE_ALIASES.items)
           keys == Flatten([f \in 1..Len(h) |-> Keys(h[f][2])])
       IN  /\ \A p \in KeywordPlaces(h) : ~WholeWordIn(h[p[1]][2][p[2]][1], s)
           /\ \E k \in DOMAIN keys :
                 /\ IsFuzzyWinner(k, keys, s)
                 /\ Cardinality({p \in KeywordPlaces(h) : h[p[1]][2][p[2]][1] = keys[k]}) = 2

\* C10: under the default thresholds (min_confidence 0.7, fuzzy min_score
\* 70) and non-empty labels, a record has matched = true exactly when both
\* the function and the seniority were resolved, that is exactly when its
\* list of warnings is empty.
C10_MatchedIffNoWarnings ==
    (pc = "processed" /\ frame.exc = "" /\ min_confidence = <<7, 10>>) =>
        /\ frame.result.matched <=> frame.result.warnings = <<>>
        /\ frame.result.matched <=>
              (frame.result.function # NoneValue /\ frame.result.seniority # NoneValue)
        /\ frame.result.function # NoneValue => RatLeq(<<7, 10>>, frame.func_conf)
        /\ frame.result.function = NoneValue => frame.func_conf = Zero
        /\ frame.result.seniority # NoneValue => RatLeq(<<7, 10>>, frame.seniority_conf)
        /\ frame.result.seniority = NoneValue => frame.seniority_conf = Zero

\* a record under the default threshold whose function was resolved by the
\* fuzzy fallback (a confidence below 1.0) and whose seniority was resolved
C10_Witness ==
    /\ pc = "processed" /\ frame.exc = "" /\ min_confidence = <<7, 10>>
    /\ RatLess(Zero, frame.func_conf) /\ RatLess(frame.func_conf, One)
    /\ frame.result.seniority # NoneValue
    /\ frame.result.matched
    /\ frame.result.warnings = <<>>

---------------------------------------------------------------------------
(* The service: requests to /categorise and /reload-config handled one at  *)
(* a time, the configuration document edited between them.  Cache entries  *)
(* expiring (memoize timeout) or evicted (lru_cache maxsize) are steps of   *)
(* SpecCache and SpecReload below.                                         *)

Blank == <<" ", " ">>
Exact == <<"s","n","r"," ","g","r","o","w","t","h">>
Near  == <<"g","r","o","w","t">>
Padded(t) == <<" ">> \o t \o <<"\t">>

Repeat(t, n) == [i \in 1..n |-> t]

Request(is_json, field, is_list, titles) ==
    [is_json |-> is_json, field |-> field, is_list |-> is_list, titles |-> titles]

SingleTitleRequests == {Request(TRUE, "title", FALSE, <<t>>) : t \in {Exact, Near, Padded(Near), Blank}}

BatchRequests ==
    {Request(TRUE, "titles", TRUE, ts) :
        ts \in { <<>>, <<Blank>>, <<Exact, Blank, Padded(Near)>>,
                 Repeat(Exact, AsyncBatchThreshold - 1) \o <<Near>>,
                 Repeat(Exact, AsyncBatchThreshold) \o <<Near>>,
                 Repeat(Near, MaxTitlesPerRequest + 1) }}

RejectedRequests ==
    { Request(FALSE, "", FALSE, <<>>),
      Request(TRUE, "name", FALSE, <<>>),
      Request(TRUE, "titles", FALSE, <<>>) }

Requests == SingleTitleRequests \cup BatchRequests \cup RejectedRequests

\* the module-level load at import: an exception there and no service starts
InitService(docs) ==
    /\ configDoc \in docs
    /\ load_config(configDoc).exc = ""
    /\ FUNCTION_HIERARCHY = load_config(configDoc).value[1]
    /\ SENIORITY_KEYWORDS = load_config(configDoc).value[2]
    /\ TITLE_ALIASES = load_config(configDoc).value[3]
    /\ min_confidence = Rat(7, 10)
    /\ extractOneLen \in {2, 3}
    /\ title = <<>>
    /\ pc = "serving"
    /\ normalized = <<>>
    /\ renormalized = <<>>
    /\ match = Raised("")
    /\ frame = RaisedFrame("")
    /\ normCache = EmptyNormCache
    /\ memo = EmptyMemo
    /\ response = NoResponse
    /\ remembered = NoCall
    /\ loads = [f |-> 1, s |-> 1, a |-> 1, n |-> 1]
    /\ reloader = IdleReloader
    /\ classifier = IdleClassifier

\* the document at settings.config_path is replaced
EditConfigTo(docs) ==
    /\ \E d \in docs \ {configDoc} : configDoc' = d
    /\ UNCHANGED <<globalVars, settingVars, engineVars, cacheVars, response, remembered,
                   threadVars>>

ReloadResponse(status, e) ==
    [NoResponse EXCEPT !.route = "reload-config", !.status = status, !.error = e]

\* POST /reload-config
ReloadConfig ==
    LET loaded == load_config(configDoc)
    IN  /\ IF loaded.exc = ""
           THEN /\ FUNCTION_HIERARCHY' = loaded.value[1]
                /\ SENIORITY_KEYWORDS' = loaded.value[2]
                /\ TITLE_ALIASES' = loaded.value[3]
                /\ response' = ReloadResponse(200, "")
           ELSE /\ UNCHANGED globalVars
                /\ response' = ReloadResponse(500, loaded.exc)
        /\ UNCHANGED <<settingVars, engineVars, configDoc, cacheVars, remembered, threadVars>>

\* the handler answers and leaves the caches as r gives them
Respond(r) ==
    /\ response' = r.response
    /\ normCache' = r.nc
    /\ memo' = r.mc

\* POST /categorise
CategoriseFrom(requests) ==
    /\ \E req \in requests :
          Respond(categorise_job_titles(req, normCache, memo,
                      <<FUNCTION_HIERARCHY, SENIORITY_KEYWORDS, TITLE_ALIASES,
                        min_confidence, extractOneLen>>))
    /\ UNCHANGED <<globalVars, settingVars, engineVars, configDoc, remembered, threadVars>>

\* a memoized process_title result passes its timeout
ExpireMemo ==
    /\ \E t \in ServiceTitles :
          /\ memo[t].hit
          /\ memo' = [memo EXCEPT ![t] = [hit |-> FALSE, value |-> NoRecord]]
    /\ UNCHANGED <<globalVars, settingVars, engineVars, configDoc, normCache, response,
                   remembered, threadVars>>

\* the lru_cache of normalize_title drops its least recently used entry
EvictNormalized ==
    /\ \E t \in ServiceTitles :
          /\ normCache[t].hit
          /\ normCache' = [normCache EXCEPT ![t] = Miss]
    /\ UNCHANGED <<globalVars, settingVars, engineVars, configDoc, memo, response,
                   remembered, threadVars>>

Init == InitService(ConfigDocs)

EditConfig == EditConfigTo(ConfigDocs)

Categorise == CategoriseFrom(Requests)

Next ==
    \/ EditConfig
    \/ ReloadConfig
    \/ Categorise

Spec == Init /\ [][Next]_vars

IsErrorRecord(r) == "error" \in DOMAIN r

\* C3: a categorise request that passes validation succeeds whatever a title
\* raises: status 200, one record per title in order, an error record
\* (original_title, error, matched false) for a title whose classification
\* raised and the normal record for every other title.
C3_FailureIsolated ==
    (response.route = "categorise" /\ response.status # 400) =>
        /\ response.status = 200
        /\ Len(response.results) = Len(response.titles)
        /\ \A i \in DOMAIN response.results :
              /\ response.results[i].original_title = response.titles[i]
              /\ IsErrorRecord(response.results[i]) <=> i \in response.failed
              /\ IsErrorRecord(response.results[i]) => ~response.results[i].matched

IsMapping(table) == table.type = "dict"

\* C4: whatever the configuration document holds, a reload answers with
\* success and leaves three mappings in place.
C4_ReloadNeverFails ==
    response.route = "reload-config" =>
        /\ response.status = 200
        /\ IsMapping(FUNCTION_HIERARCHY)
        /\ IsMapping(SENIORITY_KEYWORDS)
        /\ IsMapping(TITLE_ALIASES)

---------------------------------------------------------------------------
(* Two calls compared: single-title requests while the document changes    *)
(* between the defaults and a configured one, with one earlier call kept    *)
(* for comparison.                                                         *)

CacheDocs == {Absent, FullDoc}
CacheRequests == {Request(TRUE, "title", FALSE, <<t>>) : t \in ServiceTitles}

InitCache == InitService(CacheDocs)

EditCacheConfig == EditConfigTo(CacheDocs)

CategoriseOne == CategoriseFrom(CacheRequests)

\* the call just answered is kept for comparison with a later one
Observe ==
    /\ ~remembered.hit
    /\ response.route = "categorise"
    /\ response.status = 200
    /\ remembered' = [hit |-> TRUE, title |-> response.titles[1],
                      snapshot |-> response.snapshot, record |-> response.results[1]]
    /\ UNCHANGED <<globalVars, settingVars, engineVars, configDoc, cacheVars, response,
                   threadVars>>

NextCache ==
    \/ EditCacheConfig
    \/ ReloadConfig
    \/ CategoriseOne
    \/ ExpireMemo
    \/ EvictNormalized
    \/ Observe

SpecCache == InitCache /\ [][NextCache]_vars

\* C1: two process_title calls for the same title under the same active
\* configuration return the same record, whatever happened in between.
C1_SameSnapshotSameRecord ==
    (/\ remembered.hit
     /\ response.route = "categorise"
     /\ response.status = 200
     /\ response.titles = <<remembered.title>>
     /\ response.snapshot = remembered.snapshot)
    => response.results[1] = remembered.record

---------------------------------------------------------------------------
(* reload_config beside a process_title call, one read or write of a       *)
(* global per step.  loads names, for each global, the load_config call    *)
(* whose result it is bound to (the load at import is 1).                  *)

MaxReloads == 2

ReloadDocs == {Absent, FullDoc}

InitReload == InitService(ReloadDocs)

EditReloadConfig == EditConfigTo(ReloadDocs)

\* line 488, right-hand side: load_config() returns its triple
ReloadBegin ==
    /\ reloader.pc = "idle"
    /\ loads.n <= MaxReloads
    /\ load_config(configDoc).exc = ""
    /\ reloader' = [pc |-> "store_functions", triple |-> load_config(configDoc).value,
                    load |-> loads.n + 1]
    /\ loads' = [loads EXCEPT !.n = @ + 1]
    /\ UNCHANGED <<globalVars, settingVars, engineVars, configDoc, cacheVars, response,
                   remembered, classifier>>

\* line 488, the three stores of the unpacking, left to right
StoreFunctionHierarchy ==
    /\ reloader.pc = "store_functions"
    /\ FUNCTION_HIERARCHY' = reloader.triple[1]
    /\ loads' = [loads EXCEPT !.f = reloader.load]
    /\ reloader' = [reloader EXCEPT !.pc = "store_seniority"]
    /\ UNCHANGED <<SENIORITY_KEYWORDS, TITLE_ALIASES, settingVars, engineVars, configDoc,
                   cacheVars, response, remembered, classifier>>

StoreSeniorityKeywords ==
    /\ reloader.pc = "store_seniority"
    /\ SENIORITY_KEYWORDS' = reloader.triple[2]
    /\ loads' = [loads EXCEPT !.s = reloader.load]
    /\ reloader' = [reloader EXCEPT !.pc = "store_aliases"]
    /\ UNCHANGED <<FUNCTION_HIERARCHY, TITLE_ALIASES, settingVars, engineVars, configDoc,
                   cacheVars, response, remembered, classifier>>

StoreTitleAliases ==
    /\ reloader.pc = "store_aliases"
    /\ TITLE_ALIASES' = reloader.triple[3]
    /\ loads' = [loads EXCEPT !.a = reloader.load]
    /\ reloader' = IdleReloader
    /\ response' = ReloadResponse(200, "")
    /\ UNCHANGED <<FUNCTION_HIERARCHY, SENIORITY_KEYWORDS, settingVars, engineVars,
                   configDoc, cacheVars, remembered, classifier>>

\* process_title(title) is called: the memoized record, or the body starts
CallProcessTitle ==
    /\ classifier.pc = "idle"
    /\ \E t \in ServiceTitles :
          classifier' = IF memo[t].hit
                        THEN [IdleClassifier EXCEPT !.pc = "done", !.title = t,
                                                    !.frame.result = memo[t].value]
                        ELSE [IdleClassifier EXCEPT !.pc = "line_300", !.title = t]
    /\ UNCHANGED <<globalVars, settingVars, engineVars, configDoc, cacheVars, response,
                   remembered, loads, reloader>>

\* line 300: the argument FUNCTION_HIERARCHY is read
ReadFunctionHierarchy ==
    /\ classifier.pc = "line_300"
    /\ classifier' = [classifier EXCEPT !.pc = "function_axis",
                                        !.hierarchy = FUNCTION_HIERARCHY,
                                        !.reads = @ \cup {loads.f}]
    /\ UNCHANGED <<globalVars, settingVars, engineVars, configDoc, cacheVars, response,
                   remembered, loads, reloader>>

\* what a match_with_confidence call read of TITLE_ALIASES
alias_reads(t) == IF normCache[t].hit THEN {} ELSE {loads.a}

\* line 300: match_with_confidence runs on the hierarchy it was given;
\* normalize_title reads TITLE_ALIASES unless the title is in its cache
FunctionAxis ==
    /\ classifier.pc = "function_axis"
    /\ classifier' =
          [classifier EXCEPT
              !.function = cached_match(classifier.title, classifier.hierarchy, TRUE,
                                        normCache, TITLE_ALIASES, extractOneLen).m,
              !.reads = @ \cup alias_reads(classifier.title),
              !.pc = "line_301"]
    /\ normCache' = cached_match(classifier.title, classifier.hierarchy, TRUE,
                                 normCache, TITLE_ALIASES, extractOneLen).nc
    /\ UNCHANGED <<globalVars, settingVars, engineVars, configDoc, memo, response,
                   remembered, loads, reloader>>

\* the call ends with the frame and caches r gives
finish_call(r, reads) ==
    /\ classifier' = [classifier EXCEPT !.pc = "done", !.frame = r.frame,
                                        !.reads = @ \cup reads]
    /\ normCache' = r.nc
    /\ memo' = r.mc

\* line 301 and on: SENIORITY_KEYWORDS is read, unless line 300 raised, and
\* the record is built and memoized
SeniorityAxis ==
    /\ classifier.pc = "line_301"
    /\ finish_call(process_title_first(classifier.title,
                       [m |-> classifier.function, nc |-> normCache], memo,
                       SENIORITY_KEYWORDS, TITLE_ALIASES, min_confidence, extractOneLen),
                   IF classifier.function.exc # "" THEN {}
                   ELSE {loads.s} \cup alias_reads(classifier.title))
    /\ UNCHANGED <<globalVars, settingVars, engineVars, configDoc, response, remembered,
                   loads, reloader>>

\* the caller has the result; the thread takes the next call
Return ==
    /\ classifier.pc = "done"
    /\ classifier' = IdleClassifier
    /\ UNCHANGED <<globalVars, settingVars, engineVars, configDoc, cacheVars, response,
                   remembered, loads, reloader>>

NextReload ==
    \/ EditReloadConfig
    \/ ReloadBegin
    \/ StoreFunctionHierarchy
    \/ StoreSeniorityKeywords
    \/ StoreTitleAliases
    \/ CallProcessTitle
    \/ ReadFunctionHierarchy
    \/ FunctionAxis
    \/ SeniorityAxis
    \/ Return
    \/ ExpireMemo
    \/ EvictNormalized

SpecReload == InitReload /\ [][NextReload]_vars

\* C2: a process_title call takes every table it reads from one and the
\* same load_config result.
C2_OneLoadPerCall ==
    classifier.pc = "done" => Cardinality(classifier.reads) <= 1

====
